---- MODULE Spec2Model ----
(***************************************************************************)
(* A model of the Odoo 18 JSON-RPC client (odoo_jsonrpc_client.py) and of  *)
(* the update workflows built on it (update_data.py,                       *)
(* update_picking_status.py).                                              *)
(*                                                                         *)
(* The client is single threaded.  One step of the model is either the     *)
(* start of a client operation, one HTTP exchange (the request of the      *)
(* innermost active _make_request and the server's answer to it, with      *)
(* everything the code does until the next request or until the transport  *)
(* call ends), or the code that runs after call_kw()/authenticate() has    *)
(* returned or raised.  The server is the environment: it may answer any   *)
(* request with any response of the response sets below.                   *)
(***************************************************************************)
EXTENDS Integers, Sequences, FiniteSets, TLC

VARIABLES uid, session_id, pc, op, stack, log, ret, outcome, work

vars == <<uid, session_id, pc, op, stack, log, ret, outcome, work>>

(***************************************************************************)
(* Bounds of the model.                                                    *)
(***************************************************************************)
\* The deepest nesting of _make_request frames the server is allowed to
\* provoke by answering the authenticate endpoint with "Session expired".
MaxDepth == 3

(***************************************************************************)
(* JSON / Python values.  A value carries its type tag, so that 1, True    *)
(* and "true" are three different values, as they are in Python.           *)
(***************************************************************************)
JNull == [t |-> "null"]
JBool(b) == [t |-> "bool", b |-> b]
JInt(i) == [t |-> "int", i |-> i]
\* A string is the sequence of its words, so that a substring test is computed.
JStr(s) == [t |-> "str", s |-> s]
JList(items) == [t |-> "list", items |-> items]
JDict(d) == [t |-> "dict", d |-> d]
EmptyDict == JDict(<<>>)

\* Python truthiness: bool(v).
Truthy(v) ==
    CASE v.t = "null" -> FALSE
      [] v.t = "bool" -> v.b
      [] v.t = "int" -> v.i # 0
      [] v.t = "str" -> Len(v.s) > 0
      [] v.t = "list" -> Len(v.items) > 0
      [] v.t = "dict" -> DOMAIN v.d # {}

\* A truthiness test in the place of the identity test (`if result:`).
IsTruthy(v) == v.t # "pending" /\ Truthy(v)

\* Python identity test `v is True`.
IsTrue(v) == v.t = "bool" /\ v.b = TRUE

(***************************************************************************)
(* Exceptions and return values of the client's operations.                *)
(***************************************************************************)
Pending == [t |-> "pending"]
Ok(v) == [raised |-> FALSE, value |-> v]
Raise(cls, msg, detail) == [raised |-> TRUE, cls |-> cls, msg |-> msg, detail |-> detail]
NoDetail == <<>>

(***************************************************************************)
(* The wire: requests, and the responses the server may give.              *)
(***************************************************************************)
AuthEndpoint == "/web/session/authenticate"
CallEndpoint == "/web/dataset/call_kw"

\* authenticate(): the login parameters.
AuthParams == [db |-> "18_odoo", login |-> "admin", password |-> "admin"]

\* call_kw(): the parameters of a model call; the context sent is always empty.
CallParams(model, method, args, kwargs) ==
    [model |-> model, method |-> method, args |-> args, kwargs |-> kwargs,
     context |-> <<>>]

\* The JSON-RPC payload _make_request builds for (endpoint, params).
Payload(endpoint, params) ==
    [url |-> endpoint, jsonrpc |-> "2.0", method |-> "call", params |-> params, id |-> 1]

SessionExpiredText == <<"Session", "expired">>
UnknownErrorText == <<"Unknown", "error">>

\* Python's `pat in s` on strings, computed on words.
Contains(s, pat) ==
    \E i \in 0..(Len(s) - Len(pat)) : SubSeq(s, i + 1, i + Len(pat)) = pat

\* str(v) of an error's debug payload: the words of the printed value.
Str(v) ==
    CASE v.t = "str" -> v.s
      [] v.t = "dict" ->
           IF "message" \in DOMAIN v.d
           THEN <<"{", "message", ":">> \o v.d.message.s \o <<"}">>
           ELSE <<"{", "}">>
      [] OTHER -> <<v.t>>

\* The error objects of the modelled server: "Session expired" in the message,
\* only in the debug payload, in neither, and an error with no message at all.
ErrExpiredMsg == [code |-> 100, message |-> <<"Odoo", "Session", "expired">>]
ErrExpiredDebug ==
    [code |-> 100, message |-> <<"Odoo", "Server", "Error">>,
     data |-> JDict([message |-> JStr(SessionExpiredText)])]
ErrDenied ==
    [code |-> 200, message |-> <<"Access", "Denied">>,
     data |-> JDict([message |-> JStr(<<"Access", "Denied">>)])]
ErrBare == [code |-> 200]
ErrorObjects == {ErrExpiredMsg, ErrExpiredDebug, ErrDenied, ErrBare}

\* Auth results: a session of user 7, a session of user 8 without a token, a
\* null uid, no uid at all, an empty mapping, null.
AuthResults ==
    { JDict([uid |-> JInt(7), session_id |-> JStr(<<"s7">>)]),
      JDict([uid |-> JInt(8)]),
      JDict([uid |-> JNull, session_id |-> JStr(<<"s0">>)]),
      JDict([db |-> JStr(<<"18_odoo">>)]),
      EmptyDict,
      JNull }

\* Records as the server returns them.
Rec(id, name) == JDict([id |-> JInt(id), name |-> JStr(<<name>>)])

\* Results of a model call: true, false, 1, "true", null, an empty list, a
\* list of records.
CallResults ==
    { JBool(TRUE), JBool(FALSE), JInt(1), JStr(<<"t", "r", "u", "e">>), JNull,
      JList(<<>>), JList(<<Rec(2, "b"), Rec(1, "a")>>) }

\* The lists of at most n elements of S.
RECURSIVE ListsUpTo(_, _)
ListsUpTo(S, n) ==
    IF n = 0 THEN {<<>>}
    ELSE LET shorter == ListsUpTo(S, n - 1)
         IN  shorter \cup {Append(l, x) : l \in shorter, x \in S}

\* The bounds of the verification workflow: the longest list of records the
\* server answers its search_read with, and the longest list of picking ids.
MaxFetched == 2
MaxIds == 2

\* stock.picking records as search_read returns them: a many2one field is an
\* [id, label] pair (false when empty), an x2many field a list of ids; a
\* field may be null or missing.
Label(s) == JStr(<<s>>)
FetchedRecords ==
    { JDict([id |-> JInt(1), x_studio_delivered |-> JBool(TRUE),
             salla_order_status_id |-> JList(<<JInt(2), Label("Shipped")>>),
             move_ids |-> JList(<<JInt(1), JInt(2)>>), state |-> Label("done")]),
      JDict([id |-> JInt(1), x_studio_delivered |-> JNull,
             salla_order_status_id |-> JList(<<JInt(2), Label("Delivered")>>),
             move_ids |-> JList(<<JInt(2), JInt(1)>>)]),
      JDict([id |-> JInt(1),
             salla_order_status_id |-> JList(<<JInt(3), Label("Shipped")>>),
             move_ids |-> JList(<<>>), state |-> Label("draft")]),
      JDict([id |-> JInt(2), x_studio_delivered |-> JBool(FALSE),
             salla_order_status_id |-> JInt(2),
             move_ids |-> JList(<<JInt(1), JInt(2)>>), state |-> Label("done")]),
      JDict([id |-> JInt(2), x_studio_delivered |-> JInt(1),
             salla_order_status_id |-> JBool(FALSE), state |-> JNull]),
      JDict([x_studio_delivered |-> JBool(TRUE)]) }
FetchedResults ==
    {JList(records) : records \in ListsUpTo(FetchedRecords, MaxFetched)}
      \cup {JBool(TRUE), JNull}

\* A response: the network fails, the server answers with a non-2xx status,
\* or it answers 2xx with an envelope (with an error, a result, or neither).
NetworkFailure == [kind |-> "URLError"]
HttpFailure == [kind |-> "HTTPError", code |-> 500]
Answer(body) == [kind |-> "ok", body |-> body]
ErrorEnvelope(e) == [jsonrpc |-> "2.0", id |-> 1, error |-> e]
ResultEnvelope(v) == [jsonrpc |-> "2.0", id |-> 1, result |-> v]
BareEnvelope == [jsonrpc |-> "2.0", id |-> 1]

\* The envelopes without an error that the server may answer a request with.
ResultBodies(endpoint) ==
    {BareEnvelope}
    \cup {ResultEnvelope(v) :
            v \in IF endpoint = AuthEndpoint THEN AuthResults
                  ELSE CallResults \cup FetchedResults}

CallResultBodies == {BareEnvelope} \cup {ResultEnvelope(v) : v \in CallResults}
AllResultBodies == ResultBodies(AuthEndpoint) \cup CallResultBodies

(***************************************************************************)
(* _make_request.  The stack holds the active _make_request frames,        *)
(* outermost first.  Frame 1 was called by the running operation; every    *)
(* frame above it was called by the authenticate() that the frame below    *)
(* runs at line 99.  Only the top frame is at a request; the frames below  *)
(* it wait in authenticate().                                              *)
(***************************************************************************)
Frame(endpoint, params) ==
    [endpoint |-> endpoint, params |-> params, attempt |-> "first",
     error_msg |-> NoDetail]

Top == stack[Len(stack)]

\* error_data.get('message', 'Unknown error')
error_msg(e) == IF "message" \in DOMAIN e THEN e.message ELSE UnknownErrorText

\* error_data.get('data', {})
error_debug(e) == IF "data" \in DOMAIN e THEN e.data ELSE EmptyDict

\* 'Session expired' in error_msg or 'Session expired' in str(error_debug)
session_expired(e) ==
    \/ Contains(error_msg(e), SessionExpiredText)
    \/ Contains(Str(error_debug(e)), SessionExpiredText)

\* result.get('result', {})
result_of(body) == IF "result" \in DOMAIN body THEN body.result ELSE EmptyDict

\* The tail of authenticate(): what it does with the result of its request.
\* `set` says whether uid and session_id are assigned.
authenticate_tail(result) ==
    IF Truthy(result) /\ "uid" \in DOMAIN result.d
    THEN [set |-> TRUE,
          uid |-> result.d.uid,
          session_id |-> IF "session_id" \in DOMAIN result.d
                         THEN result.d.session_id ELSE JNull,
          ret |-> Ok(JBool(TRUE))]
    ELSE [set |-> FALSE, uid |-> JNull, session_id |-> JNull,
          ret |-> Raise("ValueError", "Authentication failed: No UID returned",
                        NoDetail)]

\* The exchange the top frame makes: its request and the response r.
Exchange(r) ==
    [request |-> Payload(Top.endpoint, Top.params), response |-> r,
     attempt |-> Top.attempt, depth |-> Len(stack)]

\* An exception leaves every frame: ValueError is caught nowhere in the
\* client, HTTPError and URLError are re-raised as the same class by the
\* except clauses of each enclosing frame.
Raised(e) ==
    /\ stack' = <<>>
    /\ ret' = e
    /\ UNCHANGED <<uid, session_id>>

\* opener.open raises URLError (first request or retry).
open_URLError ==
    /\ pc = "running" /\ stack # <<>>
    /\ log' = Append(log, Exchange(NetworkFailure))
    /\ Raised(Raise("URLError", "Connection Error", NoDetail))
    /\ UNCHANGED <<pc, op, outcome, work>>

\* opener.open raises HTTPError (first request or retry).
open_HTTPError ==
    /\ pc = "running" /\ stack # <<>>
    /\ log' = Append(log, Exchange(HttpFailure))
    /\ Raised(Raise("HTTPError", "HTTP Error", NoDetail))
    /\ UNCHANGED <<pc, op, outcome, work>>

\* The first request of a frame is answered with a "Session expired" error:
\* the frame calls authenticate(), which calls _make_request.
recv_session_expired(e) ==
    /\ pc = "running" /\ stack # <<>>
    /\ Top.attempt = "first"
    /\ session_expired(e)
    /\ Len(stack) < MaxDepth
    /\ log' = Append(log, Exchange(Answer(ErrorEnvelope(e))))
    /\ stack' = [stack EXCEPT ![Len(stack)].attempt = "reauth",
                              ![Len(stack)].error_msg = error_msg(e)]
                \o <<Frame(AuthEndpoint, AuthParams)>>
    /\ UNCHANGED <<uid, session_id, pc, op, ret, outcome, work>>

\* Another error answered by sending the request again, with no
\* re-authentication, in the place of raising.
recv_error_resend(e) ==
    /\ pc = "running" /\ stack # <<>>
    /\ Top.attempt = "first"
    /\ ~session_expired(e)
    /\ log' = Append(log, Exchange(Answer(ErrorEnvelope(e))))
    /\ stack' = [stack EXCEPT ![Len(stack)].attempt = "retry"]
    /\ UNCHANGED <<uid, session_id, pc, op, ret, outcome, work>>

\* The first request of a frame is answered with another error.
recv_error(e) ==
    /\ pc = "running" /\ stack # <<>>
    /\ Top.attempt = "first"
    /\ ~session_expired(e)
    /\ log' = Append(log, Exchange(Answer(ErrorEnvelope(e))))
    /\ Raised(Raise("ValueError", "JSON-RPC Error", error_msg(e)))
    /\ UNCHANGED <<pc, op, outcome, work>>

\* The retried request handled as the first one is: "Session expired" makes
\* the frame authenticate and retry again.
recv_error_after_reauth_again(e) ==
    /\ pc = "running" /\ stack # <<>>
    /\ Top.attempt = "retry"
    /\ log' = Append(log, Exchange(Answer(ErrorEnvelope(e))))
    /\ IF session_expired(e) /\ Len(stack) < MaxDepth
       THEN /\ stack' = [stack EXCEPT ![Len(stack)].attempt = "reauth"]
                        \o <<Frame(AuthEndpoint, AuthParams)>>
            /\ UNCHANGED <<uid, session_id, ret>>
       ELSE Raised(Raise("ValueError", "JSON-RPC Error after re-auth", error_msg(e)))
    /\ UNCHANGED <<pc, op, outcome, work>>

\* The request retried after authenticate() is answered with an error.
recv_error_after_reauth(e) ==
    /\ pc = "running" /\ stack # <<>>
    /\ Top.attempt = "retry"
    /\ log' = Append(log, Exchange(Answer(ErrorEnvelope(e))))
    /\ Raised(Raise("ValueError", "JSON-RPC Error after re-auth", error_msg(e)))
    /\ UNCHANGED <<pc, op, outcome, work>>

\* What `if self.authenticate():` at line 99 does with a returned value.
authenticate_returned(value) ==
    IF Truthy(value)
    THEN /\ stack' = [SubSeq(stack, 1, Len(stack) - 1)
                        EXCEPT ![Len(stack) - 1].attempt = "retry"]
         /\ ret' = ret
    ELSE /\ stack' = <<>>
         /\ ret' = Raise("ValueError", "JSON-RPC Error: Failed to re-authenticate",
                         stack[Len(stack) - 1].error_msg)

\* A request (first or retried) is answered without an error: the frame
\* returns result.get('result', {}) to its caller.
recv_result(body) ==
    /\ pc = "running" /\ stack # <<>>
    /\ body \in ResultBodies(Top.endpoint)
    /\ "error" \notin DOMAIN body
    /\ log' = Append(log, Exchange(Answer(body)))
    /\ IF Top.endpoint = AuthEndpoint
       THEN LET a == authenticate_tail(result_of(body)) IN
            /\ uid' = IF a.set THEN a.uid ELSE uid
            /\ session_id' = IF a.set THEN a.session_id ELSE session_id
            /\ IF a.ret.raised \/ Len(stack) = 1
               THEN stack' = <<>> /\ ret' = a.ret
               ELSE authenticate_returned(a.ret.value)
       ELSE /\ stack' = <<>>
            /\ ret' = Ok(result_of(body))
            /\ UNCHANGED <<uid, session_id>>
    /\ UNCHANGED <<pc, op, outcome, work>>

(***************************************************************************)
(* The client's operations.  Inputs are drawn from these sets.             *)
(***************************************************************************)
Models == {"stock.picking", "stock.move"}
RecordIds == {1, 2}
FieldLists == {<<>>, <<"name">>, <<"state", "name">>}
IdTerm == [field |-> "id", operator |-> "in", value |-> <<1, 2>>]
Domains == {<<>>, <<IdTerm>>}
\* read_all_records: domain is Optional, None by default.
None == [some |-> FALSE]
Some(v) == [some |-> TRUE, v |-> v]
OptionalDomains == {None} \cup {Some(d) : d \in Domains}
WriteValues ==
    { [x_studio_delivered |-> JBool(TRUE)], [salla_order_status_id |-> JInt(2)] }

Idle == pc \in {"idle", "done"}

\* The state of a running workflow (none for the client's own operations).
NoWork == [name |-> "none"]

\* call_kw(model, method, args, kwargs): the session check, then the frame
\* of _make_request("/web/dataset/call_kw", params).
call_kw(model, method, args, kwargs) ==
    /\ log' = <<>>
    /\ IF ~Truthy(uid)
       THEN /\ stack' = <<>>
            /\ ret' = Raise("ValueError", "Not authenticated. Call authenticate() first.",
                            NoDetail)
       ELSE /\ stack' = <<Frame(CallEndpoint, CallParams(model, method, args, kwargs))>>
            /\ ret' = Pending
    /\ pc' = "running"
    /\ outcome' = Pending
    /\ UNCHANGED <<uid, session_id>>

\* An operation that fails before it calls call_kw.
Rejected(e) ==
    /\ log' = <<>>
    /\ stack' = <<>>
    /\ ret' = Pending
    /\ pc' = "done"
    /\ outcome' = e
    /\ UNCHANGED <<uid, session_id>>

FieldsRequired ==
    Raise("ValueError", "Fields list is required. No default fields will be fetched.",
          NoDetail)

\* The whitelist sent as a sorted list of names.
fields_kwargs_sorted(fields) ==
    [fields |-> SelectSeq(<<"name", "state">>,
                          LAMBDA n : \E i \in 1..Len(fields) : fields[i] = n)]

\* The kwargs of a read: {"fields": fields}.
fields_kwargs(fields) == [fields |-> fields]

\* client.authenticate() is called: its request is about to be sent.
start_authenticate ==
    /\ op' = [name |-> "authenticate"]
    /\ log' = <<>>
    /\ stack' = <<Frame(AuthEndpoint, AuthParams)>>
    /\ ret' = Pending
    /\ pc' = "running"
    /\ outcome' = Pending
    /\ UNCHANGED <<uid, session_id>>

authenticate ==
    /\ Idle
    /\ work' = NoWork
    /\ start_authenticate

read_record(model, record_id, fields) ==
    /\ Idle
    /\ work' = NoWork
    /\ op' = [name |-> "read_record", model |-> model, record_id |-> record_id,
              fields |-> fields]
    /\ IF fields = <<>>
       THEN Rejected(FieldsRequired)
       ELSE call_kw(model, "read", <<JList(<<JInt(record_id)>>)>>, fields_kwargs(fields))

search_read(model, domain, fields) ==
    /\ Idle
    /\ work' = NoWork
    /\ op' = [name |-> "search_read", model |-> model, domain |-> domain,
              fields |-> fields]
    /\ IF fields = <<>>
       THEN Rejected(FieldsRequired)
       ELSE call_kw(model, "search_read", <<domain>>, fields_kwargs(fields))

get_fields(model) ==
    /\ Idle
    /\ work' = NoWork
    /\ op' = [name |-> "get_fields", model |-> model]
    /\ call_kw(model, "fields_get", <<>>, <<>>)

\* read_all_records without its check of the field list.
read_all_records_unchecked(model, fields, domain) ==
    /\ Idle
    /\ work' = NoWork
    /\ op' = [name |-> "read_all_records", model |-> model, fields |-> fields,
              domain |-> domain]
    /\ call_kw(model, "search_read",
               <<IF domain = None THEN <<>> ELSE domain.v>>,
               fields_kwargs(fields))

read_all_records(model, fields, domain) ==
    /\ Idle
    /\ work' = NoWork
    /\ op' = [name |-> "read_all_records", model |-> model, fields |-> fields,
              domain |-> domain]
    /\ IF fields = <<>>
       THEN Rejected(FieldsRequired)
       ELSE call_kw(model, "search_read",
                    <<IF domain = None THEN <<>> ELSE domain.v>>,
                    fields_kwargs(fields))

write_record(model, record_id, values) ==
    /\ Idle
    /\ work' = NoWork
    /\ op' = [name |-> "write_record", model |-> model, record_id |-> record_id,
              values |-> values]
    /\ call_kw(model, "write", <<JList(<<JInt(record_id)>>), JDict(values)>>, <<>>)

\* read_record returning whatever list it was given: result[-1], and no
\* "not found".
read_record_result_last(result, record_id) ==
    IF result.t = "list" /\ result.items # <<>>
    THEN Ok(result.items[Len(result.items)])
    ELSE Ok(result)

\* read_record, after call_kw returned: result[0], or "not found".
read_record_result(result, record_id) ==
    IF Truthy(result)
    THEN CASE result.t = "list" -> Ok(result.items[1])
           [] result.t = "str" -> Ok(JStr(<<result.s[1]>>))
           [] result.t = "dict" -> Raise("KeyError", "0", NoDetail)
           [] OTHER -> Raise("TypeError", "object has no len()", NoDetail)
    ELSE Raise("ValueError", "Record not found in model", <<record_id>>)

\* search_read and read_all_records, after call_kw returned.
search_read_result(result) == Ok(IF Truthy(result) THEN result ELSE JList(<<>>))

\* write_record, after call_kw returned: result is True.
write_record_result(result) == Ok(JBool(IsTrue(result)))

(***************************************************************************)
(* validate_picking.py: validate_picking.                                  *)
(***************************************************************************)
\* The parameters of call_kw (self aside): a call with any other keyword
\* raises TypeError before the body runs.
CallKwParameters == {"model", "method", "args", "kwargs"}

\* The keywords validate_picking passes to client.call_kw (lines 58-64).
ValidateKeywords == {"model", "method", "args", "kwargs", "context"}

UnexpectedKeyword ==
    Raise("TypeError", "call_kw() got an unexpected keyword argument", <<"context">>)

\* The `except Exception` branch (lines 119-129) and the return of lines
\* 108-117.
validate_failure(o, e) ==
    [success |-> FALSE, picking_id |-> o.picking_id, error |-> e,
     context |-> [skip_sms |-> o.skip_sms, cancel_backorder |-> o.cancel_backorder]]
validate_success(o, result) ==
    [success |-> TRUE, picking_id |-> o.picking_id, result |-> result,
     context |-> [skip_sms |-> o.skip_sms, cancel_backorder |-> o.cancel_backorder]]

\* validate_picking after its button_validate call returned a result that is
\* not an action, or raised.
validate_picking_result(o, r) ==
    IF r.raised THEN validate_failure(o, r) ELSE validate_success(o, r.value)

\* validate_picking(client, picking_id, skip_sms, cancel_backorder): the call
\* of line 58 binds its keywords to call_kw's parameters first.
validate_picking(picking_id, skip_sms, cancel_backorder) ==
    /\ Idle
    /\ work' = NoWork
    /\ op' = [name |-> "validate_picking", picking_id |-> picking_id,
              skip_sms |-> skip_sms, cancel_backorder |-> cancel_backorder]
    /\ IF ValidateKeywords \subseteq CallKwParameters
       THEN call_kw("stock.picking", "button_validate",
                    <<JList(<<JInt(picking_id)>>)>>, <<>>)
       ELSE Rejected(Ok(validate_failure(op', UnexpectedKeyword)))

\* What the operation makes of what call_kw() (or authenticate()) returned;
\* an exception passes through every one of them.
Returned(o, r) ==
    IF o.name = "validate_picking" THEN Ok(validate_picking_result(o, r))
    ELSE IF r.raised THEN r
    ELSE CASE o.name = "read_record" -> read_record_result(r.value, o.record_id)
           [] o.name \in {"search_read", "read_all_records"} -> search_read_result(r.value)
           [] o.name = "write_record" -> write_record_result(r.value)
           [] OTHER -> r

ClientOps == {"authenticate", "call_kw", "read_record", "search_read", "get_fields",
              "read_all_records", "write_record", "validate_picking"}

\* The operation ends: it returns or raises to its caller.  The log of its
\* requests ends with it.
Return ==
    /\ pc = "running" /\ stack = <<>> /\ ret # Pending
    /\ op.name \in ClientOps
    /\ outcome' = Returned(op, ret)
    /\ pc' = "done"
    /\ log' = <<>>
    /\ UNCHANGED <<uid, session_id, op, stack, ret, work>>

(***************************************************************************)
(* The client on its own: any sequence of operations, against any server.  *)
(***************************************************************************)
Init ==
    /\ uid = JNull
    /\ session_id = JNull
    /\ pc = "idle"
    /\ op = [name |-> "none"]
    /\ stack = <<>>
    /\ log = <<>>
    /\ ret = Pending
    /\ outcome = Pending
    /\ work = NoWork

Transport ==
    \/ open_URLError
    \/ open_HTTPError
    \/ \E e \in ErrorObjects : recv_session_expired(e)
    \/ \E e \in ErrorObjects : recv_error(e)
    \/ \E e \in ErrorObjects : recv_error_after_reauth(e)
    \/ \E body \in AllResultBodies : recv_result(body)

Next ==
    \/ authenticate
    \/ \E m \in Models, i \in RecordIds, f \in FieldLists : read_record(m, i, f)
    \/ \E m \in Models, d \in Domains, f \in FieldLists : search_read(m, d, f)
    \/ \E m \in Models : get_fields(m)
    \/ \E m \in Models, f \in FieldLists, d \in OptionalDomains : read_all_records(m, f, d)
    \/ \E m \in Models, i \in RecordIds, v \in WriteValues : write_record(m, i, v)
    \/ \E i \in RecordIds, s \in BOOLEAN, c \in BOOLEAN : validate_picking(i, s, c)
    \/ Transport
    \/ Return

Spec == Init /\ [][Next]_vars

(***************************************************************************)
(* update_data.py: normalize_updates and bulk_update_records.  An update   *)
(* is a mapping from field names (and "id") to values.                     *)
(***************************************************************************)
\* The bounds of the update workflows: the longest update list tried.
MaxUpdates == 2

\* main() runs a workflow on a client it has just built and called
\* authenticate() on; the workflow functions themselves take any client, so
\* the model also runs them on a client that never authenticated.
AfterLogin == pc = "idle" \/ (pc = "done" /\ op.name = "authenticate")

\* Mappings: d without key k, and d with d[k] = v.
Without(d, k) == [x \in DOMAIN d \ {k} |-> d[x]]
Put(d, k, v) == [x \in DOMAIN d \cup {k} |-> IF x = k THEN v ELSE d[x]]

\* normalize_updates that keeps a product_uom_qty the update came with.
normalize_update_keep(update, model) ==
    IF /\ model = "stock.move"
       /\ "quantity" \in DOMAIN update
       /\ "product_uom_qty" \notin DOMAIN update
    THEN Put(update, "product_uom_qty", update["quantity"])
    ELSE update

\* normalize_updates, for one update.
normalize_update(update, model) ==
    IF model = "stock.move" /\ "quantity" \in DOMAIN Without(update, "id")
    THEN Put(update, "product_uom_qty", update["quantity"])
    ELSE update

normalize_updates(updates, model) ==
    [i \in 1..Len(updates) |-> normalize_update(updates[i], model)]

\* The caller's list after normalize_updates: the function writes to
\* update.copy() and appends to a new list, so the list and its mappings are
\* left as they were.
caller_updates(updates, model) ==
    [i \in 1..Len(updates) |-> updates[i]]

\* The field names of the modelled updates, in sorted order.
SortedFieldNames == <<"product_uom_qty", "quantity", "state">>

\* json.dumps(field_updates, sort_keys=True): the key/value pairs in the order
\* of the sorted keys.
IsKeyOf(d, k) == k \in DOMAIN d
json_dumps_sorted(d) ==
    LET keys == SelectSeq(SortedFieldNames, LAMBDA k : IsKeyOf(d, k))
    IN  [i \in 1..Len(keys) |-> [key |-> keys[i], value |-> d[keys[i]]]]

\* The results of a batch operation.
NewResults == [success |-> TRUE, updated |-> 0, failed |-> 0, errors |-> <<>>]

\* update.get('id')
get_id(update) == IF "id" \in DOMAIN update THEN update["id"] ELSE JNull

\* The index of the group an update is put in when every update opens a
\* group of its own.
GroupIndex_none(groups, key) == 0

\* The index of the group with this key, 0 if there is none.
GroupIndex(groups, key) ==
    IF \E g \in 1..Len(groups) : groups[g].key = key
    THEN CHOOSE g \in 1..Len(groups) : groups[g].key = key
    ELSE 0

\* A grouping loop that passes over an update it cannot write without
\* counting it.
group_update_skip(acc, update) ==
    LET record_id == get_id(update)
        field_updates == Without(update, "id")
        update_key == json_dumps_sorted(field_updates)
        g == GroupIndex(acc.groups, update_key)
    IN  IF ~Truthy(record_id) \/ DOMAIN field_updates = {}
        THEN acc
        ELSE IF g = 0
        THEN [acc EXCEPT !.groups =
                            Append(@, [key |-> update_key, values |-> field_updates,
                                       ids |-> <<record_id>>])]
        ELSE [acc EXCEPT !.groups[g].ids = Append(@, record_id)]

\* One round of the grouping loop (lines 91-115) on acc = [results, groups].
group_update(acc, update) ==
    LET record_id == get_id(update)
        field_updates == Without(update, "id")
        update_key == json_dumps_sorted(field_updates)
        g == GroupIndex(acc.groups, update_key)
    IN  IF ~Truthy(record_id)
        THEN [acc EXCEPT !.results.errors =
                            Append(@, [error |-> "Missing 'id' in update", update |-> update]),
                         !.results.failed = @ + 1]
        ELSE IF DOMAIN field_updates = {}
        THEN [acc EXCEPT !.results.errors =
                            Append(@, [error |-> "No fields to update for record",
                                       record_id |-> record_id]),
                         !.results.failed = @ + 1]
        ELSE IF g = 0
        THEN [acc EXCEPT !.groups =
                            Append(@, [key |-> update_key, values |-> field_updates,
                                       ids |-> <<record_id>>])]
        ELSE [acc EXCEPT !.groups[g].ids = Append(@, record_id)]

RECURSIVE group_updates(_, _)
group_updates(acc, updates) ==
    IF updates = <<>> THEN acc
    ELSE group_updates(group_update(acc, Head(updates)), Tail(updates))

\* A count of one failure per failed write call, however many ids it carried.
count_write_once(results, r, record_ids) ==
    IF ~r.raised /\ IsTrue(r.value)
    THEN [results EXCEPT !.updated = @ + Len(record_ids)]
    ELSE [results EXCEPT !.failed = @ + 1,
                         !.errors = Append(@, [error |-> "Error updating IDs",
                                               ids |-> record_ids])]

\* `if result is True:` and the two branches around it (lines 131-143), for
\* the group with these ids.
count_write(results, r, record_ids) ==
    IF r.raised
    THEN [results EXCEPT !.failed = @ + Len(record_ids),
                         !.errors = Append(@, [error |-> "Error updating IDs",
                                               ids |-> record_ids, exception |-> r])]
    ELSE IF IsTrue(r.value)
    THEN [results EXCEPT !.updated = @ + Len(record_ids)]
    ELSE [results EXCEPT !.failed = @ + Len(record_ids),
                         !.errors = Append(@, [error |-> "Update returned False for IDs",
                                               ids |-> record_ids])]

\* Lines 145-148.
finish_results(results) == [results EXCEPT !.success = (results.failed = 0)]

\* The write call of a group (lines 124-129), and its arguments as the
\* workflow's record of the calls it made.
write_group(model, group) ==
    call_kw(model, "write", <<JList(group.ids), JDict(group.values)>>, <<>>)
WriteCall(model, group) ==
    [model |-> model, method |-> "write", ids |-> group.ids, values |-> group.values]

\* bulk_update_records(client, model, updates), up to its first write call.
start_bulk_update_records(model, updates) ==
    /\ op' = [name |-> "bulk_update_records", model |-> model, updates |-> updates]
    /\ IF updates = <<>>
       THEN /\ Rejected(Ok([success |-> FALSE, message |-> "No records to update",
                            updated |-> 0, failed |-> 0]))
            /\ work' = NoWork
       ELSE LET acc == group_updates([results |-> NewResults, groups |-> <<>>],
                                     normalize_updates(updates, model))
            IN  IF acc.groups = <<>>
                THEN /\ Rejected(Ok(finish_results(acc.results)))
                     /\ work' = [name |-> "bulk", results |-> acc.results,
                                 groups |-> acc.groups, next |-> 1, calls |-> <<>>,
                                 updates |-> caller_updates(updates, model)]
                ELSE /\ write_group(model, acc.groups[1])
                     /\ work' = [name |-> "bulk", results |-> acc.results,
                                 groups |-> acc.groups, next |-> 1,
                                 calls |-> <<WriteCall(model, acc.groups[1])>>,
                                 updates |-> caller_updates(updates, model)]

bulk_update_records(model, updates) ==
    /\ AfterLogin
    /\ start_bulk_update_records(model, updates)

\* A write loop that ends at the first group whose write did not return true.
bulk_write_returned_abort ==
    /\ pc = "running" /\ stack = <<>> /\ ret # Pending
    /\ op.name = "bulk_update_records"
    /\ LET results == count_write(work.results, ret, work.groups[work.next].ids)
       IN  /\ IF work.next < Len(work.groups) /\ ret = Ok(JBool(TRUE))
              THEN /\ write_group(op.model, work.groups[work.next + 1])
                   /\ work' = [work EXCEPT
                                 !.results = results, !.next = @ + 1,
                                 !.calls = Append(@, WriteCall(op.model,
                                                               work.groups[work.next + 1]))]
              ELSE /\ outcome' = Ok(finish_results(results))
                   /\ work' = [work EXCEPT !.results = results, !.next = @ + 1]
                   /\ pc' = "done"
                   /\ log' = <<>>
                   /\ UNCHANGED <<uid, session_id, stack, ret>>
    /\ UNCHANGED op

\* The write call of a group has returned or raised: count it, then write the
\* next group or return the results.
bulk_write_returned ==
    /\ pc = "running" /\ stack = <<>> /\ ret # Pending
    /\ op.name = "bulk_update_records"
    /\ LET results == count_write(work.results, ret, work.groups[work.next].ids)
       IN  /\ IF work.next < Len(work.groups)
              THEN /\ write_group(op.model, work.groups[work.next + 1])
                   /\ work' = [work EXCEPT
                                 !.results = results, !.next = @ + 1,
                                 !.calls = Append(@, WriteCall(op.model,
                                                               work.groups[work.next + 1]))]
              ELSE /\ outcome' = Ok(finish_results(results))
                   /\ work' = [work EXCEPT !.results = results, !.next = @ + 1]
                   /\ pc' = "done"
                   /\ log' = <<>>
                   /\ UNCHANGED <<uid, session_id, stack, ret>>
    /\ UNCHANGED op

(***************************************************************************)
(* update_picking_status.py: update_stock_picking_status.                  *)
(***************************************************************************)
\* Lines 70-85: the results of the one write call of the picking ids.
picking_write_results(r, picking_ids) ==
    IF r.raised
    THEN [success |-> FALSE, updated |-> 0, failed |-> Len(picking_ids),
          errors |-> <<[error |-> "Error updating pickings", exception |-> r]>>,
          picking_ids |-> <<>>]
    ELSE IF IsTrue(r.value)
    THEN [success |-> TRUE, updated |-> Len(picking_ids), failed |-> 0,
          errors |-> <<>>, picking_ids |-> picking_ids]
    ELSE [success |-> FALSE, updated |-> 0, failed |-> Len(picking_ids),
          errors |-> <<[error |-> "Update returned False for IDs", ids |-> picking_ids]>>,
          picking_ids |-> <<>>]

\* update_stock_picking_status(client, field_updates, picking_ids), up to
\* its write call.
start_update_stock_picking_status(field_updates, picking_ids) ==
    /\ op' = [name |-> "update_stock_picking_status", field_updates |-> field_updates,
              picking_ids |-> picking_ids]
    /\ IF DOMAIN field_updates = {}
       THEN Rejected(Ok([success |-> FALSE, message |-> "No fields to update",
                         updated |-> 0, failed |-> 0, errors |-> <<>>]))
       ELSE IF picking_ids = <<>>
       THEN Rejected(Ok([success |-> FALSE, message |-> "No picking IDs provided",
                         updated |-> 0, failed |-> 0, errors |-> <<>>]))
       ELSE call_kw("stock.picking", "write",
                    <<JList(picking_ids), JDict(field_updates)>>, <<>>)

update_stock_picking_status(field_updates, picking_ids) ==
    /\ AfterLogin
    /\ work' = NoWork
    /\ start_update_stock_picking_status(field_updates, picking_ids)

picking_write_returned ==
    /\ pc = "running" /\ stack = <<>> /\ ret # Pending
    /\ op.name = "update_stock_picking_status"
    /\ outcome' = Ok(picking_write_results(ret, op.picking_ids))
    /\ pc' = "done"
    /\ log' = <<>>
    /\ UNCHANGED <<uid, session_id, op, stack, ret, work>>

(***************************************************************************)
(* The update workflows, on a client that may or may not be authenticated, *)
(* against any server.                                                     *)
(***************************************************************************)
Updates ==
    { [id |-> JInt(1), quantity |-> JInt(5)],
      [id |-> JInt(2), quantity |-> JInt(5)],
      [id |-> JInt(3), quantity |-> JInt(5), product_uom_qty |-> JInt(9)],
      [id |-> JInt(3), state |-> JStr(<<"done">>)],
      [quantity |-> JInt(5)],
      [id |-> JInt(2)] }

UpdateLists == ListsUpTo(Updates, MaxUpdates)

PickingFieldUpdates ==
    { <<>>,
      [x_studio_delivered |-> JBool(TRUE)],
      [salla_order_status_id |-> JInt(2), x_studio_delivered |-> JBool(TRUE)] }
PickingIdLists == {<<>>, <<JInt(1)>>, <<JInt(1), JInt(2)>>}

\* The server of the update workflows: every result of a model call, and of
\* the errors and of the auth results one of each kind.
UpdateErrorObjects == {ErrExpiredMsg, ErrDenied}
UpdateResultBodies ==
    CallResultBodies
    \cup {ResultEnvelope(JDict([uid |-> JInt(7), session_id |-> JStr(<<"s7">>)])),
          ResultEnvelope(JDict([db |-> JStr(<<"18_odoo">>)]))}

UpdateNext ==
    \/ authenticate
    \/ \E m \in Models, i \in RecordIds, v \in WriteValues : write_record(m, i, v)
    \/ \E m \in Models, u \in UpdateLists : bulk_update_records(m, u)
    \/ bulk_write_returned
    \/ \E f \in PickingFieldUpdates, p \in PickingIdLists : update_stock_picking_status(f, p)
    \/ picking_write_returned
    \/ open_URLError
    \/ open_HTTPError
    \/ \E e \in UpdateErrorObjects : recv_session_expired(e)
    \/ \E e \in UpdateErrorObjects : recv_error(e)
    \/ \E e \in UpdateErrorObjects : recv_error_after_reauth(e)
    \/ \E body \in UpdateResultBodies : recv_result(body)
    \/ Return

UpdateSpec == Init /\ [][UpdateNext]_vars

(***************************************************************************)
(* The bulk update on lists in which an id comes back with other values.   *)
(***************************************************************************)
\* The bound of these lists: their greatest length.
MaxBatch == 3

RepeatedUpdates ==
    { [id |-> JInt(1), quantity |-> JInt(1)],
      [id |-> JInt(1), quantity |-> JInt(2)],
      [id |-> JInt(2), quantity |-> JInt(1)] }
BatchLists == ListsUpTo(RepeatedUpdates, MaxBatch)

BatchNext ==
    \/ authenticate
    \/ \E m \in Models, u \in BatchLists : bulk_update_records(m, u)
    \/ bulk_write_returned
    \/ open_URLError
    \/ open_HTTPError
    \/ \E e \in UpdateErrorObjects : recv_session_expired(e)
    \/ \E e \in UpdateErrorObjects : recv_error(e)
    \/ \E e \in UpdateErrorObjects : recv_error_after_reauth(e)
    \/ \E body \in UpdateResultBodies : recv_result(body)
    \/ Return

BatchSpec == Init /\ [][BatchNext]_vars

(***************************************************************************)
(* update_picking_status.py: verify_picking_updates.  The results count    *)
(* the picking ids as verified or failed; an error is a record that names  *)
(* the picking id (and the field, the value found and the value expected). *)
(***************************************************************************)
\* list(expected_fields.keys()): the keys in the order of the mapping.
ExpectedFieldOrder == <<"salla_order_status_id", "x_studio_delivered", "move_ids", "state">>
fields_to_read(expected_fields) ==
    SelectSeq(ExpectedFieldOrder, LAMBDA k : IsKeyOf(expected_fields, k))

\* Python's ==, on the values compared here: True == 1 and False == 0, lists
\* are equal element by element, values of different types are unequal.
IsNumber(v) == v.t \in {"bool", "int"}
Num(v) == IF v.t = "bool" THEN (IF v.b THEN 1 ELSE 0) ELSE v.i
ScalarEq(a, b) == IF IsNumber(a) /\ IsNumber(b) THEN Num(a) = Num(b) ELSE a = b
PyEq(a, b) ==
    IF a.t = "list" /\ b.t = "list"
    THEN /\ Len(a.items) = Len(b.items)
         /\ \A k \in 1..Len(a.items) : ScalarEq(a.items[k], b.items[k])
    ELSE ScalarEq(a, b)

\* record.get(field)
record_get(record, field) == IF field \in DOMAIN record.d THEN record.d[field] ELSE JNull

Mismatch(picking_id, field, actual, expected) ==
    [picking_id |-> picking_id, field |-> field, actual |-> actual, expected |-> expected]
NotFound(picking_id) == [picking_id |-> picking_id, error |-> "not found"]
VerificationError(e) == [error |-> "Verification error", exception |-> e]

\* A field check in which a boolean is compared like any other value.
check_field_strict(picking_id, field, expected_value, record) ==
    LET actual_value == record_get(record, field) IN
    IF actual_value.t = "list" /\ Len(actual_value.items) >= 1
    THEN IF ~PyEq(actual_value.items[1], expected_value)
         THEN <<Mismatch(picking_id, field, actual_value.items[1], expected_value)>>
         ELSE <<>>
    ELSE IF ~PyEq(actual_value, expected_value)
         THEN <<Mismatch(picking_id, field, actual_value, expected_value)>>
         ELSE <<>>

\* A field check in which a list is compared like any other value.
check_field_whole(picking_id, field, expected_value, record) ==
    LET actual_value == record_get(record, field) IN
    IF expected_value.t = "bool"
    THEN LET actual_bool == IF actual_value # JNull THEN Truthy(actual_value) ELSE FALSE
         IN  IF actual_bool # expected_value.b
             THEN <<Mismatch(picking_id, field, JBool(actual_bool), expected_value)>>
             ELSE <<>>
    ELSE IF ~PyEq(actual_value, expected_value)
         THEN <<Mismatch(picking_id, field, actual_value, expected_value)>>
         ELSE <<>>

\* Lines 136-158: the check of one expected field of one record; the error
\* messages it appends (none when the field matches).
check_field(picking_id, field, expected_value, record) ==
    LET actual_value == record_get(record, field) IN
    IF expected_value.t = "bool"
    THEN LET actual_bool == IF actual_value # JNull THEN Truthy(actual_value) ELSE FALSE
         IN  IF actual_bool # expected_value.b
             THEN <<Mismatch(picking_id, field, JBool(actual_bool), expected_value)>>
             ELSE <<>>
    ELSE IF actual_value.t = "list" /\ Len(actual_value.items) >= 1
    THEN LET actual_id == actual_value.items[1]
         IN  IF ~PyEq(actual_id, expected_value)
             THEN <<Mismatch(picking_id, field, actual_id, expected_value)>>
             ELSE <<>>
    ELSE IF ~PyEq(actual_value, expected_value)
         THEN <<Mismatch(picking_id, field, actual_value, expected_value)>>
         ELSE <<>>

\* The loop over expected_fields.items() for one record: all its messages.
RECURSIVE check_fields(_, _, _, _)
check_fields(picking_id, fields, expected_fields, record) ==
    IF fields = <<>> THEN <<>>
    ELSE check_field(picking_id, Head(fields), expected_fields[Head(fields)], record)
           \o check_fields(picking_id, Tail(fields), expected_fields, record)

\* {record['id']: record for record in records}: of two records with one
\* id the later one stays.
records_map(records) ==
    [id \in {records[k].d.id : k \in 1..Len(records)} |->
       records[CHOOSE k \in 1..Len(records) :
                 /\ records[k].d.id = id
                 /\ \A j \in 1..Len(records) : records[j].d.id = id => j <= k]]

\* One round of the loop over picking_ids (lines 126-165).
verify_picking(results, picking_id, by_id, expected_fields) ==
    IF picking_id \notin DOMAIN by_id
    THEN [results EXCEPT !.failed = @ + 1, !.errors = Append(@, NotFound(picking_id))]
    ELSE LET messages == check_fields(picking_id, fields_to_read(expected_fields),
                                      expected_fields, by_id[picking_id])
         IN  IF messages = <<>>
             THEN [results EXCEPT !.verified = @ + 1]
             ELSE [results EXCEPT !.failed = @ + 1, !.errors = @ \o messages]

RECURSIVE verify_pickings(_, _, _, _)
verify_pickings(results, picking_ids, by_id, expected_fields) ==
    IF picking_ids = <<>> THEN results
    ELSE verify_pickings(verify_picking(results, Head(picking_ids), by_id, expected_fields),
                         Tail(picking_ids), by_id, expected_fields)

NewVerification == [verified |-> 0, failed |-> 0, errors |-> <<>>]

\* An `except` branch that swallows the exception without a message.
verification_caught_silent(e) == NewVerification

\* The `except Exception` of lines 167-169, for an exception raised before
\* the loop over picking_ids counted anything.
verification_caught(e) == [NewVerification EXCEPT !.errors = <<VerificationError(e)>>]

\* Lines 120-171, from the return of client.search_read on: r is what
\* search_read returned or raised.
verification_results(r, picking_ids, expected_fields) ==
    IF r.raised THEN verification_caught(r)
    ELSE IF r.value.t # "list"
    THEN verification_caught(Raise("TypeError", "object is not iterable", NoDetail))
    ELSE IF \E k \in 1..Len(r.value.items) : "id" \notin DOMAIN r.value.items[k].d
    THEN verification_caught(Raise("KeyError", "id", NoDetail))
    ELSE verify_pickings(NewVerification, picking_ids, records_map(r.value.items),
                         expected_fields)

\* domain = [('id', 'in', picking_ids)]
picking_domain(picking_ids) ==
    <<[field |-> "id", operator |-> "in", value |-> picking_ids]>>

\* verify_picking_updates(client, picking_ids, expected_fields), up to the
\* request of its search_read.
start_verify_picking_updates(picking_ids, expected_fields) ==
    /\ op' = [name |-> "verify_picking_updates", picking_ids |-> picking_ids,
              expected_fields |-> expected_fields]
    /\ IF picking_ids = <<>>
       THEN Rejected(Ok(NewVerification))
       ELSE IF fields_to_read(expected_fields) = <<>>
       THEN Rejected(Ok(verification_caught(FieldsRequired)))
       ELSE call_kw("stock.picking", "search_read", <<picking_domain(picking_ids)>>,
                    fields_kwargs(fields_to_read(expected_fields)))

verify_picking_updates(picking_ids, expected_fields) ==
    /\ AfterLogin
    /\ work' = NoWork
    /\ start_verify_picking_updates(picking_ids, expected_fields)

\* search_read has returned or raised.
verify_returned ==
    /\ pc = "running" /\ stack = <<>> /\ ret # Pending
    /\ op.name = "verify_picking_updates"
    /\ outcome' = Ok(verification_results(
                        IF ret.raised THEN ret ELSE search_read_result(ret.value),
                        op.picking_ids, op.expected_fields))
    /\ pc' = "done"
    /\ log' = <<>>
    /\ UNCHANGED <<uid, session_id, op, stack, ret, work>>

(***************************************************************************)
(* The verification workflow, on a client that may or may not be           *)
(* authenticated, against any server.                                      *)
(***************************************************************************)
VerifyIdLists == ListsUpTo({JInt(1), JInt(2)}, MaxIds)
ExpectedFields ==
    { <<>>,
      [x_studio_delivered |-> JBool(TRUE)],
      [x_studio_delivered |-> JBool(FALSE)],
      [salla_order_status_id |-> JInt(2)],
      [salla_order_status_id |-> JInt(2), x_studio_delivered |-> JBool(TRUE)],
      [move_ids |-> JList(<<JInt(1), JInt(2)>>)],
      [state |-> Label("done")] }

VerifyResultBodies ==
    {BareEnvelope}
    \cup {ResultEnvelope(v) : v \in FetchedResults}
    \cup {ResultEnvelope(JDict([uid |-> JInt(7), session_id |-> JStr(<<"s7">>)])),
          ResultEnvelope(JDict([db |-> JStr(<<"18_odoo">>)]))}

VerifyNext ==
    \/ authenticate
    \/ \E p \in VerifyIdLists, e \in ExpectedFields : verify_picking_updates(p, e)
    \/ verify_returned
    \/ open_URLError
    \/ open_HTTPError
    \/ \E e \in UpdateErrorObjects : recv_session_expired(e)
    \/ \E e \in UpdateErrorObjects : recv_error(e)
    \/ \E e \in UpdateErrorObjects : recv_error_after_reauth(e)
    \/ \E body \in VerifyResultBodies : recv_result(body)
    \/ Return

VerifySpec == Init /\ [][VerifyNext]_vars

(***************************************************************************)
(* The scripts: main() of update_data.py and of update_picking_status.py.  *)
(* While a script runs, work holds its frame: the results of the functions *)
(* it has called so far, and its exit status once it has ended.  (During   *)
(* bulk_update_records work holds that function's frame; update_data's     *)
(* main is the only caller of it here.)                                    *)
(***************************************************************************)
\* config.py.  The record ids are those of the server's records above.
BULK_UPDATE_RECORDS ==
    <<[id |-> JInt(1), quantity |-> JInt(99)], [id |-> JInt(2), quantity |-> JInt(99)]>>
BULK_UPDATE_MODEL == "stock.move"
STOCK_PICKING_UPDATE_FIELDS ==
    [salla_order_status_id |-> JInt(2), x_studio_delivered |-> JBool(TRUE)]
STOCK_PICKING_IDS == <<JInt(1)>>

NotRun == [ran |-> FALSE]
MainFrame(script) ==
    [name |-> "main", script |-> script, at |-> "running", status |-> 0,
     bulk |-> NotRun, picking |-> NotRun, write |-> NotRun, verification |-> NotRun]
Running(script) == work.name = "main" /\ work.script = script /\ work.at = "running"

\* The script ends: sys.exit(status), or the return of main() (status 0).
sys_exit(frame, status) ==
    /\ work' = [frame EXCEPT !.at = "exited", !.status = status]
    /\ UNCHANGED <<uid, session_id, pc, op, stack, log, ret, outcome>>

\* update_data.py, update_stock_pickings: as update_stock_picking_status,
\* with results that name no picking ids and early returns without "errors".
update_pickings_results(r, picking_ids) ==
    IF r.raised
    THEN [success |-> FALSE, updated |-> 0, failed |-> Len(picking_ids),
          errors |-> <<[error |-> "Error updating pickings", exception |-> r]>>]
    ELSE IF IsTrue(r.value)
    THEN [success |-> TRUE, updated |-> Len(picking_ids), failed |-> 0, errors |-> <<>>]
    ELSE [success |-> FALSE, updated |-> 0, failed |-> Len(picking_ids),
          errors |-> <<[error |-> "Update returned False for IDs", ids |-> picking_ids]>>]

start_update_stock_pickings(field_updates, picking_ids) ==
    /\ op' = [name |-> "update_stock_pickings", field_updates |-> field_updates,
              picking_ids |-> picking_ids]
    /\ IF DOMAIN field_updates = {}
       THEN Rejected(Ok([success |-> FALSE, message |-> "No fields to update",
                         updated |-> 0, failed |-> 0]))
       ELSE IF picking_ids = <<>>
       THEN Rejected(Ok([success |-> FALSE, message |-> "No picking IDs provided",
                         updated |-> 0, failed |-> 0]))
       ELSE call_kw("stock.picking", "write",
                    <<JList(picking_ids), JDict(field_updates)>>, <<>>)

update_pickings_returned ==
    /\ pc = "running" /\ stack = <<>> /\ ret # Pending
    /\ op.name = "update_stock_pickings"
    /\ outcome' = Ok(update_pickings_results(ret, op.picking_ids))
    /\ pc' = "done"
    /\ log' = <<>>
    /\ UNCHANGED <<uid, session_id, op, stack, ret, work>>

\* update_data.main, up to client.authenticate().
update_data_main ==
    /\ pc = "idle"
    /\ work' = MainFrame("update_data")
    /\ start_authenticate

\* update_data.main from line 245 on: the picking update, when configured.
update_data_pickings(frame) ==
    IF STOCK_PICKING_IDS # <<>> /\ DOMAIN STOCK_PICKING_UPDATE_FIELDS # {}
    THEN /\ start_update_stock_pickings(STOCK_PICKING_UPDATE_FIELDS, STOCK_PICKING_IDS)
         /\ work' = frame
    ELSE sys_exit(frame, 0)

\* authenticate() has returned or raised (`except Exception`: exit 1).
update_data_authenticated ==
    /\ Running("update_data")
    /\ pc = "done" /\ op.name = "authenticate"
    /\ IF outcome.raised \/ ~Truthy(outcome.value)
       THEN sys_exit(work, 1)
       ELSE IF BULK_UPDATE_RECORDS # <<>>
       THEN start_bulk_update_records(BULK_UPDATE_MODEL, BULK_UPDATE_RECORDS)
       ELSE update_data_pickings(work)

\* bulk_update_records has returned: its results are printed
\* (update_results['errors'] raises KeyError when there are none).
update_data_bulk_returned ==
    /\ pc = "done" /\ op.name = "bulk_update_records" /\ work.name # "main"
    /\ LET frame == [MainFrame("update_data") EXCEPT !.bulk = outcome.value] IN
       IF "errors" \notin DOMAIN outcome.value
       THEN sys_exit(frame, 1)
       ELSE update_data_pickings(frame)

\* update_stock_pickings has returned: its results are printed, then
\* "Update completed!" and main returns.
update_data_pickings_returned ==
    /\ Running("update_data")
    /\ pc = "done" /\ op.name = "update_stock_pickings"
    /\ LET frame == [work EXCEPT !.picking = outcome.value] IN
       sys_exit(frame, IF "errors" \notin DOMAIN outcome.value THEN 1 ELSE 0)

\* update_picking_status.main, up to client.authenticate().
update_picking_status_main ==
    /\ pc = "idle"
    /\ IF STOCK_PICKING_IDS = <<>>
       THEN sys_exit(MainFrame("update_picking_status"), 1)
       ELSE /\ work' = MainFrame("update_picking_status")
            /\ start_authenticate

update_picking_status_authenticated ==
    /\ Running("update_picking_status")
    /\ pc = "done" /\ op.name = "authenticate"
    /\ IF outcome.raised \/ ~Truthy(outcome.value)
       THEN sys_exit(work, 1)
       ELSE /\ start_update_stock_picking_status(STOCK_PICKING_UPDATE_FIELDS,
                                                STOCK_PICKING_IDS)
            /\ UNCHANGED work

\* A main that verifies whatever the update returned.
update_picking_status_updated_always ==
    /\ Running("update_picking_status")
    /\ pc = "done" /\ op.name = "update_stock_picking_status"
    /\ LET frame == [work EXCEPT !.picking = outcome.value, !.write = ret] IN
       /\ start_verify_picking_updates(STOCK_PICKING_IDS, STOCK_PICKING_UPDATE_FIELDS)
       /\ work' = frame

\* update_stock_picking_status has returned: the results are printed and,
\* `if update_results['success'] and update_results['updated'] > 0`, the
\* update is verified.
update_picking_status_updated ==
    /\ Running("update_picking_status")
    /\ pc = "done" /\ op.name = "update_stock_picking_status"
    /\ LET frame == [work EXCEPT !.picking = outcome.value, !.write = ret] IN
       IF outcome.value.success /\ outcome.value.updated > 0
       THEN /\ start_verify_picking_updates(outcome.value.picking_ids,
                                            STOCK_PICKING_UPDATE_FIELDS)
            /\ work' = frame
       ELSE sys_exit(frame, 0)

\* verify_picking_updates has returned: the results are printed and main
\* returns.
update_picking_status_verified ==
    /\ Running("update_picking_status")
    /\ pc = "done" /\ op.name = "verify_picking_updates"
    /\ sys_exit([work EXCEPT !.verification = outcome.value], 0)

\* The scripts, one run of either, against any server.
MainResultBodies == VerifyResultBodies \cup CallResultBodies

MainNext ==
    \/ update_data_main
    \/ update_data_authenticated
    \/ update_data_bulk_returned
    \/ update_data_pickings_returned
    \/ update_picking_status_main
    \/ update_picking_status_authenticated
    \/ update_picking_status_updated
    \/ update_picking_status_verified
    \/ bulk_write_returned
    \/ update_pickings_returned
    \/ picking_write_returned
    \/ verify_returned
    \/ open_URLError
    \/ open_HTTPError
    \/ \E e \in UpdateErrorObjects : recv_session_expired(e)
    \/ \E e \in UpdateErrorObjects : recv_error(e)
    \/ \E e \in UpdateErrorObjects : recv_error_after_reauth(e)
    \/ \E body \in MainResultBodies : recv_result(body)
    \/ Return

MainSpec == Init /\ [][MainNext]_vars

(***************************************************************************)
(* Reading the log of the running (or last) operation.                     *)
(***************************************************************************)
IsErrorAnswer(r) == r.kind = "ok" /\ "error" \in DOMAIN r.body
IsExpiredAnswer(r) == IsErrorAnswer(r) /\ session_expired(r.body.error)
IsResultAnswer(r) == r.kind = "ok" /\ "error" \notin DOMAIN r.body

\* The requests sent to an endpoint so far.
SentTo(endpoint) == {i \in 1..Len(log) : log[i].request.url = endpoint}

\* The calls of authenticate() made at line 99, each seen by its first request.
Reauthentications == {i \in 1..Len(log) : log[i].depth > 1 /\ log[i].attempt = "first"}

\* The retries of the operation's own request (line 101 of frame 1).
Retries == {i \in 1..Len(log) : log[i].depth = 1 /\ log[i].attempt = "retry"}

\* The transport call of the operation has ended.
Ended == stack = <<>> /\ ret # Pending

ModelOps == {"call_kw", "read_record", "search_read", "get_fields",
             "read_all_records", "write_record"}
ReadOps == {"read_record", "search_read", "read_all_records"}

LastAnswer == log[Len(log)].response

\* C1. When the first answer to a model call is a "Session expired" error and
\* the re-authentication succeeds (authenticate() returned true at line 99, so
\* the request was sent again), the request was re-sent exactly once, exactly
\* one authenticate request was issued, and the call returns the result of the
\* retried response.
C1_RecoveredWithOneReauthentication ==
    ( /\ Ended
      /\ op.name \in ModelOps
      /\ Len(log) >= 1
      /\ IsExpiredAnswer(log[1].response)
      /\ Retries # {} )
    => /\ Cardinality(SentTo(CallEndpoint)) = 2
       /\ Cardinality(SentTo(AuthEndpoint)) = 1
       /\ IsResultAnswer(LastAnswer) => ret = Ok(result_of(LastAnswer.body))

\* C2. During one transport send authenticate() is re-run at most once, the
\* original request is retried at most once, and at most three HTTP requests
\* are made, whatever the server answers.
C2_BoundedRecovery ==
    /\ Cardinality(Reauthentications) <= 1
    /\ Cardinality(Retries) <= 1
    /\ Len(log) <= 3

\* C3. When the first answer is a "Session expired" error and the
\* re-authentication fails (the auth answer is an error envelope or a result
\* without a user id), the operation fails with the "Failed to
\* re-authenticate" error and the original request is not re-sent.
AuthAnswerFails(r) ==
    \/ IsErrorAnswer(r) /\ ~session_expired(r.body.error)
    \/ /\ IsResultAnswer(r)
       /\ LET v == result_of(r.body) IN
          v.t # "dict" \/ "uid" \notin DOMAIN v.d \/ v.d.uid = JNull

C3_ReauthFailureReported ==
    ( /\ Ended
      /\ op.name \in ModelOps
      /\ Len(log) = 2
      /\ IsExpiredAnswer(log[1].response)
      /\ log[2].request.url = AuthEndpoint
      /\ AuthAnswerFails(log[2].response) )
    => /\ ret.raised
       /\ ret.cls = "ValueError"
       /\ ret.msg = "JSON-RPC Error: Failed to re-authenticate"
       /\ Cardinality(SentTo(CallEndpoint)) = 1

\* C4. A retried request that is answered with an error envelope ends the
\* whole operation at once with the "after re-auth" error: it is the last
\* request made, whatever the error says (also "Session expired").
C4_RetryErrorIsFinal ==
    \A i \in 1..Len(log) :
        (log[i].attempt = "retry" /\ IsErrorAnswer(log[i].response))
        => /\ i = Len(log)
           /\ stack = <<>>
           /\ ret = Raise("ValueError", "JSON-RPC Error after re-auth",
                          error_msg(log[i].response.body.error))

C4_Witness ==
    /\ Ended
    /\ op.name \in ModelOps
    /\ Len(log) = 3
    /\ log[3].attempt = "retry"
    /\ log[3].depth = 1
    /\ IsExpiredAnswer(log[3].response)
    /\ ret.raised /\ ret.msg = "JSON-RPC Error after re-auth"

\* C5. A first request that fails with an error envelope that is not "Session
\* expired", with a non-2xx status or with a network failure ends the
\* operation with RemoteError, ProtocolError or ConnectionError respectively;
\* it is the only request made (no authenticate request, no retry) and the
\* step leaves uid and session_id as they were.
PlainFailure(r) ==
    \/ r.kind \in {"URLError", "HTTPError"}
    \/ IsErrorAnswer(r) /\ ~IsExpiredAnswer(r)

SurfacedAs(r) ==
    CASE r.kind = "URLError" -> Raise("URLError", "Connection Error", NoDetail)
      [] r.kind = "HTTPError" -> Raise("HTTPError", "HTTP Error", NoDetail)
      [] OTHER -> Raise("ValueError", "JSON-RPC Error", error_msg(r.body.error))

C5_NoRetryOutsideExpiry ==
    /\ []( (Len(log) >= 1 /\ PlainFailure(log[1].response))
           => /\ Len(log) = 1
              /\ stack = <<>>
              /\ ret = SurfacedAs(log[1].response) )
    /\ [][ (Len(log) = 0 /\ Len(log') = 1 /\ PlainFailure(log'[1].response))
           => (uid' = uid /\ session_id' = session_id) ]_vars

C5_Witness ==
    /\ Ended
    /\ op.name = "search_read"
    /\ Len(log) = 1
    /\ IsErrorAnswer(log[1].response)
    /\ log[1].response.body.error = ErrDenied
    /\ ret = Raise("ValueError", "JSON-RPC Error", <<"Access", "Denied">>)
    /\ uid = JInt(7)

\* C6. No request is at the model-call endpoint while the client holds no
\* session: whenever a call_kw request is about to be sent (first or retried),
\* the user id is not null.
C6_NoModelCallWithoutSession ==
    ( /\ stack # <<>>
      /\ Top.endpoint = CallEndpoint
      /\ Top.attempt \in {"first", "retry"} )
    => uid # JNull

\* C7. When authenticate() has returned true the client holds a non-null user
\* id (so the next call_kw passes its session check).
C7_AuthenticatedMeansSession ==
    (pc = "done" /\ op.name = "authenticate" /\ outcome = Ok(JBool(TRUE)))
    => (uid # JNull /\ Truthy(uid))

\* C8. read, search_read and read_all with an empty field list fail with the
\* "fields required" error and send nothing, in every session state.
C8_EmptyWhitelistRejected ==
    (op.name \in ReadOps /\ op.fields = <<>>)
    => /\ pc = "done"
       /\ outcome = FieldsRequired
       /\ log = <<>>
       /\ stack = <<>>

C8_Witness ==
    /\ op.name = "read_all_records"
    /\ op.fields = <<>>
    /\ pc = "done"
    /\ outcome = FieldsRequired
    /\ uid = JInt(8)

\* C9. Every request that read, search_read and read_all send, the one re-sent
\* after a re-authentication included, carries kwargs.fields equal to the
\* supplied whitelist, in order; read_all without a domain sends the request
\* of search_read with the empty domain.
C9_FieldsAreTheWhitelist ==
    op.name \in ReadOps =>
      \A i \in SentTo(CallEndpoint) :
         /\ log[i].request.params.kwargs = [fields |-> op.fields]
         /\ (op.name = "read_all_records" /\ op.domain = None)
            => log[i].request =
                 [url |-> CallEndpoint, jsonrpc |-> "2.0", method |-> "call", id |-> 1,
                  params |-> [model |-> op.model, method |-> "search_read",
                              args |-> << <<>> >>,
                              kwargs |-> [fields |-> op.fields],
                              context |-> <<>>]]

C9_Witness ==
    /\ op.name = "read_all_records"
    /\ op.domain = None
    /\ op.fields = <<"state", "name">>
    /\ Len(log) = 3
    /\ log[3].attempt = "retry"
    /\ log[3].request.params.kwargs.fields = <<"state", "name">>
    /\ log[3].request = log[1].request

\* C10. write returns true exactly when the server's result is the boolean
\* true (1, "true", a list, false, null and an absent result give false), and
\* the ids of a bulk-update group or of a picking write are counted as updated
\* exactly when the result of their write call is the boolean true.
C10_UpdatedOnlyOnExactTrue ==
    /\ []( (pc = "done" /\ op.name = "write_record" /\ ret # Pending /\ ~ret.raised)
           => outcome = Ok(JBool(ret.value = JBool(TRUE))) )
    /\ []( (pc = "done" /\ op.name = "update_stock_picking_status" /\ ret # Pending)
           => /\ outcome.value.updated =
                   IF ret = Ok(JBool(TRUE)) THEN Len(op.picking_ids) ELSE 0
              /\ outcome.value.failed =
                   IF ret = Ok(JBool(TRUE)) THEN 0 ELSE Len(op.picking_ids)
              /\ outcome.value.success = (ret = Ok(JBool(TRUE))) )
    /\ [][ ( /\ op.name = "bulk_update_records" /\ op' = op
             /\ work.name = "bulk" /\ work'.name = "bulk"
             /\ work'.next = work.next + 1 )
           => LET n == Len(work.groups[work.next].ids) IN
              /\ work'.results.updated =
                   work.results.updated + (IF ret = Ok(JBool(TRUE)) THEN n ELSE 0)
              /\ work'.results.failed =
                   work.results.failed + (IF ret = Ok(JBool(TRUE)) THEN 0 ELSE n) ]_vars

C10_Witness ==
    /\ pc = "done"
    /\ op.name = "bulk_update_records"
    /\ work.name = "bulk"
    /\ Len(work.groups) = 1
    /\ Len(work.groups[1].ids) = 2
    /\ ret = Ok(JInt(1))
    /\ outcome.value.updated = 0
    /\ outcome.value.failed = 2
    /\ outcome.value.success = FALSE


\* C11. read with a non-empty whitelist on an authenticated client makes one
\* 'read' call with args [[id]] (every request of the operation is that call,
\* and one of them is its first sending); when the call returns, read fails
\* with the "not found" error if the result is an empty list, null, false or
\* absent, and returns the first record if the result is a non-empty list;
\* search_read (and read_all) return the empty list when the result is falsy
\* or absent, and the result itself otherwise.
ReadCall(o) ==
    Payload(CallEndpoint,
            [model |-> o.model, method |-> "read",
             args |-> <<JList(<<JInt(o.record_id)>>)>>,
             kwargs |-> [fields |-> o.fields], context |-> <<>>])

NotAuthenticated ==
    Raise("ValueError", "Not authenticated. Call authenticate() first.", NoDetail)

C12_ContextForwarded ==
    (op.name = "validate_picking" /\ Truthy(uid))
    => /\ pc = "done" => ret # Pending
       /\ \A i \in SentTo(CallEndpoint) :
             LET params == log[i].request.params IN
             /\ params.model = "stock.picking"
             /\ params.method = "button_validate"
             /\ params.args = <<JList(<<JInt(op.picking_id)>>)>>
             /\ params.context.skip_sms = JBool(op.skip_sms)
             /\ params.context.cancel_backorder = JBool(op.cancel_backorder)
       /\ (pc = "done" /\ ret # Pending /\ ~ret.raised) => outcome.value.success


(***************************************************************************)
(* The bulk update, read from its input: the updates as normalized, the    *)
(* valid ones among them, and the ids that share a mapping.                *)
(***************************************************************************)
BulkDone == pc = "done" /\ op.name = "bulk_update_records" /\ work.name = "bulk"

Normalized == normalize_updates(op.updates, op.model)
HasId(u) == "id" \in DOMAIN u /\ u["id"] \notin {JNull, JInt(0), JBool(FALSE)}
Fields(u) == [k \in DOMAIN u \ {"id"} |-> u[k]]
IsValid(u) == HasId(u) /\ DOMAIN u \ {"id"} # {}
ValidIndices == {i \in 1..Len(op.updates) : IsValid(Normalized[i])}
InIndices(S, i) == i \in S
IdsOf(indices) ==
    LET order == SelectSeq([i \in 1..Len(op.updates) |-> i],
                           LAMBDA i : InIndices(indices, i))
    IN  [k \in 1..Len(order) |-> Normalized[order[k]]["id"]]
SharingWith(values) == {i \in ValidIndices : Fields(Normalized[i]) = values}
FirstOf(S) == CHOOSE i \in S : \A j \in S : i <= j

Mirrored(u) ==
    IF op.model = "stock.move" /\ "quantity" \in DOMAIN u
    THEN [k \in (DOMAIN u \ {"id"}) \cup {"product_uom_qty"} |->
            IF k = "product_uom_qty" THEN u["quantity"] ELSE u[k]]
    ELSE Fields(u)
WrittenWith(values) ==
    {i \in 1..Len(op.updates) : IsValid(op.updates[i]) /\ Mirrored(op.updates[i]) = values}

Rejections ==
    SelectSeq([i \in 1..Len(op.updates) |-> i],
              LAMBDA i : ~InIndices(ValidIndices, i))
RejectionMessage(u) ==
    IF HasId(u)
    THEN [error |-> "No fields to update for record", record_id |-> u["id"]]
    ELSE [error |-> "Missing 'id' in update", update |-> u]
RECURSIVE CountIds(_)
CountIds(calls) == IF calls = <<>> THEN 0 ELSE Len(Head(calls).ids) + CountIds(Tail(calls))

C15_RejectedOnceOthersWritten ==
    (op.name = "bulk_update_records" /\ work.name = "bulk")
    => /\ Len(work.results.errors) >= Len(Rejections)
       /\ \A k \in 1..Len(Rejections) :
             work.results.errors[k] = RejectionMessage(Normalized[Rejections[k]])
       /\ work.next = 1
          => /\ work.results.failed = Len(Rejections)
             /\ Len(work.results.errors) = Len(Rejections)
       /\ work.results.failed >= Len(Rejections)
       /\ pc = "done"
          => /\ CountIds(work.calls) = Cardinality(ValidIndices)
             /\ \A i \in ValidIndices :
                   \E c \in 1..Len(work.calls) :
                      /\ work.calls[c].values = Fields(Normalized[i])
                      /\ \E k \in 1..Len(work.calls[c].ids) :
                            work.calls[c].ids[k] = Normalized[i]["id"]
             /\ outcome.value.updated + outcome.value.failed
                  = Len(Rejections) + CountIds(work.calls)

C15_Witness ==
    /\ BulkDone
    /\ op.updates = <<[quantity |-> JInt(5)], [id |-> JInt(1), quantity |-> JInt(5)]>>
    /\ op.model = "stock.picking"
    /\ work.calls = <<[model |-> "stock.picking", method |-> "write",
                       ids |-> <<JInt(1)>>, values |-> [quantity |-> JInt(5)]]>>
    /\ ret = Ok(JBool(TRUE))
    /\ outcome.value.failed = 1
    /\ outcome.value.updated = 1
    /\ Len(outcome.value.errors) = 1


\* C16. When the write call of a group raises or returns anything but true,
\* the ids of that group are counted as failed (with one error message) and
\* the write call of the next group is made all the same; bulk_update_records
\* returns its results, with every group written, and never raises.
C16_FailedGroupDoesNotStopTheRest ==
    /\ [](BulkDone
           => /\ ~outcome.raised
              /\ Len(work.calls)
                   = Cardinality({Fields(Normalized[i]) : i \in ValidIndices})
              /\ outcome.value.success = (outcome.value.failed = 0))
    /\ [][ ( /\ op.name = "bulk_update_records" /\ op' = op
             /\ work.name = "bulk" /\ work'.name = "bulk"
             /\ work'.next = work.next + 1
             /\ ret # Ok(JBool(TRUE)) )
           => /\ work'.results.failed
                   = work.results.failed + Len(work.calls[work.next].ids)
              /\ work'.results.updated = work.results.updated
              /\ Len(work'.results.errors) = Len(work.results.errors) + 1
              /\ work.next < Len(work.groups)
                 => /\ pc' = "running"
                    /\ Len(work'.calls) = Len(work.calls) + 1
                    /\ work'.calls[work.next + 1].values
                         = Fields(Normalized[FirstOf(
                             ValidIndices \ UNION {SharingWith(work.calls[c].values) :
                                                     c \in 1..work.next})]) ]_vars

C16_Witness ==
    /\ BulkDone
    /\ Len(work.calls) = 2
    /\ ret = Ok(JBool(TRUE))
    /\ outcome.value.failed = 1
    /\ outcome.value.updated = 1
    /\ outcome.value.success = FALSE
    /\ Len(outcome.value.errors) = 1


(***************************************************************************)
(* The verification, read from its input and from what the server          *)
(* answered: the record fetched for an id, the value of a field in it, and *)
(* the error messages that name an id or a field of it.                    *)
(***************************************************************************)
Verifying == op.name = "verify_picking_updates"
Fetched == IF ret.value.t = "list" THEN ret.value.items ELSE <<>>
WellFormed(v) ==
    \/ v \in {JNull, EmptyDict}
    \/ v.t = "list" /\ \A k \in 1..Len(v.items) : "id" \in DOMAIN v.items[k].d
\* search_read returned a list of records for these picking ids.
VerifyFetched ==
    /\ pc = "done" /\ Verifying
    /\ ret # Pending /\ ~ret.raised /\ WellFormed(ret.value)
Found(id) == \E k \in 1..Len(Fetched) : Fetched[k].d.id = id
RecordOf(id) ==
    Fetched[CHOOSE k \in 1..Len(Fetched) :
              /\ Fetched[k].d.id = id
              /\ \A j \in 1..Len(Fetched) : Fetched[j].d.id = id => j <= k]
ValueOf(id, field) ==
    IF field \in DOMAIN RecordOf(id).d THEN RecordOf(id).d[field] ELSE JNull
Errors == outcome.value.errors
NamesField(e, id, field) ==
    "field" \in DOMAIN e /\ e.picking_id = id /\ e.field = field
NamesPicking(e, id) == "picking_id" \in DOMAIN e /\ e.picking_id = id
Reported(id, field) == \E k \in 1..Len(Errors) : NamesField(Errors[k], id, field)
IsFalsy(v) == v \in {JNull, JBool(FALSE), JInt(0), JStr(<<>>), JList(<<>>), EmptyDict}
IsPair(v) ==
    v.t = "list" /\ Len(v.items) = 2 /\ v.items[1].t = "int" /\ v.items[2].t = "str"
PickingIds == {op.picking_ids[k] : k \in 1..Len(op.picking_ids)}

\* C17. For an expected boolean the fetched value is compared by its
\* truthiness, a null or missing value being false: the field is reported
\* exactly when that truth value differs from the expected one, the message
\* gives the truth value as the actual value, and the id is then counted as
\* failed; expected true against null is a mismatch reporting False, expected
\* false against null is a match.
C17_BooleanByTruthiness ==
    VerifyFetched =>
      \A id \in PickingIds, f \in DOMAIN op.expected_fields :
        (Found(id) /\ op.expected_fields[f].t = "bool")
        => LET truth == ~IsFalsy(ValueOf(id, f)) IN
           /\ Reported(id, f) <=> (truth # op.expected_fields[f].b)
           /\ \A k \in 1..Len(Errors) :
                 NamesField(Errors[k], id, f)
                 => /\ Errors[k].actual = JBool(truth)
                    /\ Errors[k].expected = op.expected_fields[f]
           /\ Reported(id, f)
              => /\ outcome.value.failed >= 1
                 /\ outcome.value.verified < Len(op.picking_ids)

C17_Witness ==
    /\ VerifyFetched
    /\ op.picking_ids = <<JInt(1)>>
    /\ op.expected_fields = [x_studio_delivered |-> JBool(TRUE)]
    /\ Len(Fetched) = 1
    /\ ValueOf(JInt(1), "x_studio_delivered") = JNull
    /\ outcome = Ok([verified |-> 0, failed |-> 1,
                     errors |-> <<[picking_id |-> JInt(1), field |-> "x_studio_delivered",
                                   actual |-> JBool(FALSE), expected |-> JBool(TRUE)]>>])

\* C18. For an expected integer and a fetched [id, label] pair only the id is
\* compared: the field matches exactly when the id is the expected integer,
\* whatever the label.
C18_ReferenceById ==
    VerifyFetched =>
      \A id \in PickingIds, f \in DOMAIN op.expected_fields :
        (Found(id) /\ op.expected_fields[f].t = "int" /\ IsPair(ValueOf(id, f)))
        => (~Reported(id, f) <=> ValueOf(id, f).items[1] = op.expected_fields[f])

C18_Witness ==
    /\ VerifyFetched
    /\ op.picking_ids = <<JInt(1)>>
    /\ op.expected_fields = [salla_order_status_id |-> JInt(2)]
    /\ Len(Fetched) = 1
    /\ ValueOf(JInt(1), "salla_order_status_id") = JList(<<JInt(2), Label("Delivered")>>)
    /\ outcome = Ok([verified |-> 1, failed |-> 0, errors |-> <<>>])

\* C19. For an expected value that is neither a boolean nor an integer
\* compared with an [id, label] pair, the field matches exactly when the
\* fetched value equals the expected value; an expected list of ids matches a
\* fetched list of the same ids.
C19_DirectEquality ==
    VerifyFetched =>
      \A id \in PickingIds, f \in DOMAIN op.expected_fields :
        ( /\ Found(id)
          /\ op.expected_fields[f].t # "bool"
          /\ ~(op.expected_fields[f].t = "int" /\ IsPair(ValueOf(id, f))) )
        => (~Reported(id, f) <=> ValueOf(id, f) = op.expected_fields[f])

\* C20. verify_picking_updates makes one search_read for a non-empty id list
\* (none for an empty one); when it has returned the records, every id of the
\* list is counted once: as verified exactly when its record was returned and
\* every expected field matches, otherwise as failed with at least one error
\* message naming it: one per mismatching field, or one not-found message.
FieldMatches(expected, actual) ==
    IF expected.t = "bool" THEN (~IsFalsy(actual)) = expected.b
    ELSE IF expected.t = "int" /\ IsPair(actual) THEN actual.items[1] = expected
    ELSE actual = expected
Mismatching(id) ==
    {f \in DOMAIN op.expected_fields : ~FieldMatches(op.expected_fields[f], ValueOf(id, f))}
Positions == 1..Len(op.picking_ids)
VerifiedPositions ==
    {k \in Positions : Found(op.picking_ids[k]) /\ Mismatching(op.picking_ids[k]) = {}}
SearchReadCall(o) ==
    Payload(CallEndpoint,
            [model |-> "stock.picking", method |-> "search_read",
             args |-> << <<[field |-> "id", operator |-> "in", value |-> o.picking_ids]>> >>,
             kwargs |-> [fields |-> fields_to_read(o.expected_fields)],
             context |-> <<>>])

C20_EveryIdCountedOnce ==
    /\ (Verifying /\ op.picking_ids = <<>>)
       => /\ pc = "done" /\ ret = Pending /\ log = <<>>
          /\ outcome = Ok([verified |-> 0, failed |-> 0, errors |-> <<>>])
    /\ (Verifying /\ op.picking_ids # <<>>)
       => /\ \A i \in SentTo(CallEndpoint) : log[i].request = SearchReadCall(op)
          /\ (Ended /\ pc = "running" /\ ret # NotAuthenticated)
             => Cardinality({i \in SentTo(CallEndpoint) : log[i].attempt = "first"}) = 1
    /\ VerifyFetched
       => /\ outcome.value.verified = Cardinality(VerifiedPositions)
          /\ outcome.value.failed = Cardinality(Positions \ VerifiedPositions)
          /\ \A id \in PickingIds :
                /\ ~Found(id)
                   => Cardinality({k \in 1..Len(Errors) : NamesPicking(Errors[k], id)})
                        = Cardinality({k \in Positions : op.picking_ids[k] = id})
                /\ Found(id)
                   => \A f \in DOMAIN op.expected_fields :
                         Reported(id, f) <=> f \in Mismatching(id)
          /\ \A k \in 1..Len(Errors) : \E id \in PickingIds : NamesPicking(Errors[k], id)


\* C22. For every non-empty list of updates and whatever the server answers,
\* bulk_update_records returns updated + failed equal to the number of
\* updates it was given, at least one error message when failed > 0, and
\* success exactly when failed = 0.
C22_EveryUpdateCounted ==
    (pc = "done" /\ op.name = "bulk_update_records" /\ op.updates # <<>>)
    => /\ ~outcome.raised
       /\ outcome.value.updated + outcome.value.failed = Len(op.updates)
       /\ outcome.value.failed > 0 => Len(outcome.value.errors) >= 1
       /\ outcome.value.success <=> outcome.value.failed = 0

C22_Witness ==
    /\ pc = "done"
    /\ op.name = "bulk_update_records"
    /\ op.updates = <<[id |-> JInt(1), quantity |-> JInt(5)],
                      [id |-> JInt(2), quantity |-> JInt(5)]>>
    /\ ret = Ok(JBool(FALSE))
    /\ outcome.value.updated = 0
    /\ outcome.value.failed = 2
    /\ Len(outcome.value.errors) = 1
    /\ outcome.value.success = FALSE


\* C25. When the fetch of the verification fails (search_read raises a
\* transport, remote or not-authenticated error, or rejects the empty
\* whitelist of an empty expected-field mapping), verify_picking_updates
\* does not raise: it returns verified = 0 and failed = 0 with one
\* "Verification error" message that carries the error, and no id is counted.
FetchFailed ==
    /\ pc = "done" /\ Verifying /\ op.picking_ids # <<>>
    /\ \/ ret = Pending /\ DOMAIN op.expected_fields = {}
       \/ ret # Pending /\ ret.raised

C25_FetchFailureIsOneMessage ==
    FetchFailed
    => /\ ~outcome.raised
       /\ outcome.value.verified = 0
       /\ outcome.value.failed = 0
       /\ Len(outcome.value.errors) = 1
       /\ outcome.value.errors[1].error = "Verification error"
       /\ outcome.value.errors[1].exception
            = IF ret = Pending THEN FieldsRequired ELSE ret

C25_Witness ==
    /\ FetchFailed
    /\ op.picking_ids = <<JInt(1), JInt(2)>>
    /\ ret # Pending
    /\ ret.raised
    /\ ret.cls = "ValueError"
    /\ uid = JInt(7)
    /\ outcome.value = [verified |-> 0, failed |-> 0,
                        errors |-> <<[error |-> "Verification error", exception |-> ret]>>]


\* C26. The stored session (user id and token) changes only in a step in
\* which an authenticate request is answered with a result that contains a
\* user id, and in such a step both become the values of that response (the
\* token null when the response has none); a failed authenticate, first or
\* after "Session expired", and every model call, failed or not, leave both
\* unchanged.
AnsweredNow == Len(log') = Len(log) + 1
UserIdReturned(x) ==
    /\ x.request.url = AuthEndpoint
    /\ IsResultAnswer(x.response)
    /\ LET v == result_of(x.response.body) IN
       v.t = "dict" /\ "uid" \in DOMAIN v.d /\ v.d.uid # JNull
TokenOf(v) == IF "session_id" \in DOMAIN v.d THEN v.d.session_id ELSE JNull

C26_SessionFrame ==
    [][ /\ (uid' # uid \/ session_id' # session_id)
           => (AnsweredNow /\ UserIdReturned(log'[Len(log')]))
        /\ (AnsweredNow /\ UserIdReturned(log'[Len(log')]))
           => LET v == result_of(log'[Len(log')].response.body) IN
              /\ uid' = v.d.uid
              /\ session_id' = TokenOf(v) ]_vars


\* C23. When every write succeeds, the field values of each record on the
\* server after bulk_update_records are those obtained by applying the valid
\* updates one at a time in input order, also when an id comes in several
\* updates with different values (id 1: a = 1, then a = 2, then a = 1).
\* The server's records are a mapping from id to field values; a write to
\* ids sets the written fields of each of them.
NoRecords == <<>>
Written(store, ids, values) ==
    LET touched == {ids[k].i : k \in 1..Len(ids)} IN
    [id \in DOMAIN store \cup touched |->
       IF id \in touched
       THEN [f \in (IF id \in DOMAIN store THEN DOMAIN store[id] ELSE {})
                      \cup DOMAIN values |->
               IF f \in DOMAIN values THEN values[f] ELSE store[id][f]]
       ELSE store[id]]
RECURSIVE AfterCalls(_, _)
AfterCalls(store, calls) ==
    IF calls = <<>> THEN store
    ELSE AfterCalls(Written(store, Head(calls).ids, Head(calls).values), Tail(calls))
RECURSIVE AfterEach(_, _)
AfterEach(store, updates) ==
    IF updates = <<>> THEN store
    ELSE AfterEach(IF IsValid(Head(updates))
                   THEN Written(store, <<Head(updates)["id"]>>, Fields(Head(updates)))
                   ELSE store,
                   Tail(updates))
EveryWriteSucceeded ==
    /\ BulkDone
    /\ outcome.value.updated = Cardinality(ValidIndices)
    /\ Len(work.calls) = Len(work.groups)

C23_BatchingPreservesWrites ==
    EveryWriteSucceeded
    => AfterCalls(NoRecords, work.calls) = AfterEach(NoRecords, Normalized)


\* C21. Every script exits with a non-zero status when an operation it ran
\* failed: update_data.main when the bulk update or the picking update
\* reports failed > 0, update_picking_status.main when the picking write
\* fails or the verification counts a failed record or records an error.
Exited == work.name = "main" /\ work.at = "exited"
ReportsFailed(r) == "failed" \in DOMAIN r /\ r.failed > 0
ReportsErrors(r) == "errors" \in DOMAIN r /\ r.errors # <<>>

C21_FailureExitsNonZero ==
    ( /\ Exited
      /\ \/ ReportsFailed(work.bulk)
         \/ ReportsFailed(work.picking)
         \/ ReportsFailed(work.verification)
         \/ ReportsErrors(work.verification) )
    => work.status # 0


\* C24. In update_picking_status.main the search_read of the verification
\* is made only after the picking write has returned exactly true; it asks
\* for the ids that were written, with the names of the written fields as
\* whitelist; when the write failed or raised, no verification request is
\* sent.
PickingScript == work.name = "main" /\ work.script = "update_picking_status"
Named(fields) == {fields[k] : k \in 1..Len(fields)}

C24_VerifyOnlyAfterTrueWrite ==
    PickingScript
    => /\ op.name = "verify_picking_updates"
          => /\ work.write = Ok(JBool(TRUE))
             /\ op.picking_ids = STOCK_PICKING_IDS
             /\ \A i \in SentTo(CallEndpoint) :
                   LET params == log[i].request.params IN
                   /\ params.model = "stock.picking"
                   /\ params.method = "search_read"
                   /\ params.args
                        = << <<[field |-> "id", operator |-> "in",
                                value |-> STOCK_PICKING_IDS]>> >>
                   /\ Named(params.kwargs.fields) = DOMAIN STOCK_PICKING_UPDATE_FIELDS
                   /\ Len(params.kwargs.fields)
                        = Cardinality(DOMAIN STOCK_PICKING_UPDATE_FIELDS)
       /\ op.name # "verify_picking_updates"
          => \A i \in SentTo(CallEndpoint) :
                log[i].request.params.method # "search_read"
       /\ work.write \notin {NotRun, Ok(JBool(TRUE))}
          => /\ op.name = "update_stock_picking_status"
             /\ work.at = "exited"
             /\ work.verification = NotRun

C24_Witness ==
    /\ PickingScript
    /\ work.at = "exited"
    /\ work.write = Ok(JBool(TRUE))
    /\ work.picking.updated = 1
    /\ op.name = "verify_picking_updates"
    /\ work.verification = [verified |-> 1, failed |-> 0, errors |-> <<>>]

====
